---- MODULE Spec2Model ----
(***************************************************************************)
(* Model of the OAuth authorization-code flow of the Spotify hackathon     *)
(* programs: auth.rs (get_auth_code, extract_code, get_spotify_token,      *)
(* refresh_spotify_token) and its caller authenticate_spotify.             *)
(*                                                                         *)
(* Text that the program parses is modelled as a sequence of one-character *)
(* strings, so that the parsing done by extract_code is computed and not   *)
(* assumed.  Tokens that the program only passes around are strings.       *)
(***************************************************************************)
EXTENDS Integers, Sequences, FiniteSets, TLC

(***************************************************************************)
(* Bounds of the model.                                                    *)
(***************************************************************************)
\* pairs in the query of a request line given to extract_code on its own
MaxPairs == 2

\* connections (or accept failures) taken by one get_auth_code call
MaxAccepts == 2
\* calls of authenticate_spotify in one behaviour
MaxCalls == 2
\* calls of refresh_spotify_token in one behaviour
MaxRefreshes == 2

(***************************************************************************)
(* Characters.  Ascii[n + 1] is the character with code n; control         *)
(* characters and the backquote are written as their hexadecimal code.     *)
(***************************************************************************)
Ascii ==
  <<
     "<00>", "<01>", "<02>", "<03>", "<04>", "<05>", "<06>", "<07>",
     "<08>", "\t", "\n", "<0B>", "\f", "\r", "<0E>", "<0F>",
     "<10>", "<11>", "<12>", "<13>", "<14>", "<15>", "<16>", "<17>",
     "<18>", "<19>", "<1A>", "<1B>", "<1C>", "<1D>", "<1E>", "<1F>",
     " ", "!", "\"", "#", "$", "%", "&", "'",
     "(", ")", "*", "+", ",", "-", ".", "/",
     "0", "1", "2", "3", "4", "5", "6", "7",
     "8", "9", ":", ";", "<", "=", ">", "?",
     "@", "A", "B", "C", "D", "E", "F", "G",
     "H", "I", "J", "K", "L", "M", "N", "O",
     "P", "Q", "R", "S", "T", "U", "V", "W",
     "X", "Y", "Z", "[", "\\", "]", "^", "_",
     "<60>", "a", "b", "c", "d", "e", "f", "g",
     "h", "i", "j", "k", "l", "m", "n", "o",
     "p", "q", "r", "s", "t", "u", "v", "w",
     "x", "y", "z", "{", "|", "}", "~", "<7F>"
  >>

\* the character from_utf8_lossy puts in place of a byte that is not UTF-8
ReplacementChar == "<FFFD>"

\* char::is_whitespace on the ASCII range: U+0009..U+000D and U+0020
Whitespace == {"\t", "\n", "<0B>", "\f", "\r", " "}

HexLower ==
  <<"0", "1", "2", "3", "4", "5", "6", "7", "8", "9", "a", "b", "c", "d", "e", "f">>

HexUpper ==
  <<"0", "1", "2", "3", "4", "5", "6", "7", "8", "9", "A", "B", "C", "D", "E", "F">>

IsHex(c) == \E i \in 1..16 : HexLower[i] = c \/ HexUpper[i] = c

HexVal(c) == (CHOOSE i \in 1..16 : HexLower[i] = c \/ HexUpper[i] = c) - 1

Digits == {HexLower[i] : i \in 1..10}

\* index of the first element of s that is in set, 0 when there is none
FirstIn(s, set) ==
  IF \E i \in 1..Len(s) : s[i] \in set
  THEN CHOOSE i \in 1..Len(s) : s[i] \in set /\ \A j \in 1..(i - 1) : s[j] \notin set
  ELSE 0

\* index of the last element of s that is in set, 0 when there is none
LastIn(s, set) ==
  IF \E i \in 1..Len(s) : s[i] \in set
  THEN CHOOSE i \in 1..Len(s) : s[i] \in set /\ \A j \in (i + 1)..Len(s) : s[j] \notin set
  ELSE 0

From(s, i) == SubSeq(s, i, Len(s))

Upto(s, i) == SubSeq(s, 1, i)

(***************************************************************************)
(* str::split_whitespace: the maximal runs of non-whitespace characters.   *)
(***************************************************************************)
RECURSIVE SplitAcc(_, _, _)
SplitAcc(s, cur, acc) ==
  IF s = <<>>
  THEN IF cur = <<>> THEN acc ELSE Append(acc, cur)
  ELSE IF Head(s) \in Whitespace
       THEN SplitAcc(Tail(s), <<>>, IF cur = <<>> THEN acc ELSE Append(acc, cur))
       ELSE SplitAcc(Tail(s), Append(cur, Head(s)), acc)

split_whitespace(s) == SplitAcc(s, <<>>, <<>>)

(***************************************************************************)
(* str::split on one character: the pieces between the separators, empty   *)
(* pieces included.                                                        *)
(***************************************************************************)
RECURSIVE SplitOn(_, _)
SplitOn(s, sep) ==
  LET i == FirstIn(s, {sep})
  IN  IF i = 0 THEN <<s>> ELSE <<Upto(s, i - 1)>> \o SplitOn(From(s, i + 1), sep)

(***************************************************************************)
(* percent_encoding::percent_decode followed by from_utf8_lossy: "%" and   *)
(* two hex digits become the byte they name, anything else is kept.  A     *)
(* byte of 0x80 or more standing alone is not UTF-8 and becomes U+FFFD.    *)
(***************************************************************************)
ByteChar(n) == IF n < 128 THEN Ascii[n + 1] ELSE ReplacementChar

RECURSIVE percent_decode(_)
percent_decode(s) ==
  IF s = <<>> THEN <<>>
  ELSE IF Head(s) = "%" /\ Len(s) >= 3 /\ IsHex(s[2]) /\ IsHex(s[3])
       THEN <<ByteChar(16 * HexVal(s[2]) + HexVal(s[3]))>> \o percent_decode(From(s, 4))
       ELSE <<Head(s)>> \o percent_decode(Tail(s))

\* form_urlencoded::decode: "+" is a space, then percent-decoding
replace_plus(s) == [i \in 1..Len(s) |-> IF s[i] = "+" THEN " " ELSE s[i]]

\* variant: the value is taken as it stands in the query, undecoded
form_decode_raw(s) == s

form_decode(s) == percent_decode(replace_plus(s))

(***************************************************************************)
(* form_urlencoded::parse, as Url::query_pairs uses it: the query is split *)
(* on "&", empty pieces are skipped, each piece is split at its first "="  *)
(* (no "=": the value is empty) and both halves are decoded.               *)
(***************************************************************************)
ParsePair(piece) ==
  LET i == FirstIn(piece, {"="})
  IN  IF i = 0
      THEN [key |-> form_decode(piece), value |-> <<>>]
      ELSE [key |-> form_decode(Upto(piece, i - 1)), value |-> form_decode(From(piece, i + 1))]

query_pairs(query) ==
  LET pieces == SelectSeq(SplitOn(query, "&"), LAMBDA p : p # <<>>)
  IN  [i \in 1..Len(pieces) |-> ParsePair(pieces[i])]

(***************************************************************************)
(* Url::parse of an "http://" URL, as far as extract_code depends on it:   *)
(* whether the text parses and what its query is.  The authority runs up   *)
(* to the first "/", "\", "?" or "#"; what follows the last "@" in it is   *)
(* the host, with an optional ":" and port.  The host is percent-decoded   *)
(* and must be non-empty and free of forbidden code points; the port must  *)
(* be decimal digits of a value that fits 16 bits.  The query is the text  *)
(* between the first "?" and the first "#", when the "?" comes first.      *)
(* Bracketed IPv6 hosts and hosts with an all-numeric last label are not   *)
(* modelled; no request line of the model has one.                         *)
(***************************************************************************)
HttpScheme == <<"h", "t", "t", "p", ":", "/", "/">>

ForbiddenHost ==
  {Ascii[n + 1] : n \in 0..32} \cup
  {"#", "%", "/", ":", "<", ">", "?", "@", "[", "\\", "]", "^", "|", "<7F>", ReplacementChar}

HostOk(host) ==
  LET decoded == percent_decode(host)
  IN  decoded # <<>> /\ \A i \in 1..Len(decoded) : decoded[i] \notin ForbiddenHost

RECURSIVE DecVal(_)
DecVal(ds) ==
  IF ds = <<>> THEN 0 ELSE 10 * DecVal(Upto(ds, Len(ds) - 1)) + HexVal(ds[Len(ds)])

PortOk(port) ==
  /\ \A i \in 1..Len(port) : port[i] \in Digits
  /\ DecVal(port) <= 65535

Url_parse(u) ==
  LET afterScheme == From(u, Len(HttpScheme) + 1)
      e           == FirstIn(afterScheme, {"/", "\\", "?", "#"})
      authority   == IF e = 0 THEN afterScheme ELSE Upto(afterScheme, e - 1)
      rest        == IF e = 0 THEN <<>> ELSE From(afterScheme, e)
      hostport    == From(authority, LastIn(authority, {"@"}) + 1)
      c           == FirstIn(hostport, {":"})
      host        == IF c = 0 THEN hostport ELSE Upto(hostport, c - 1)
      port        == IF c = 0 THEN <<>> ELSE From(hostport, c + 1)
      q           == FirstIn(rest, {"?"})
      h           == FirstIn(rest, {"#"})
      hasQuery    == q # 0 /\ (h = 0 \/ q < h)
  IN  [ok    |-> HostOk(host) /\ PortOk(port),
       query |-> IF hasQuery
                 THEN SubSeq(rest, q + 1, IF h = 0 THEN Len(rest) ELSE h - 1)
                 ELSE <<>>]

\* Url::port_or_known_default of an "http://" URL: the port written after
\* the host, and 80 when none is written
Url_port(u) ==
  LET afterScheme == From(u, Len(HttpScheme) + 1)
      e           == FirstIn(afterScheme, {"/", "\\", "?", "#"})
      authority   == IF e = 0 THEN afterScheme ELSE Upto(afterScheme, e - 1)
      hostport    == From(authority, LastIn(authority, {"@"}) + 1)
      c           == FirstIn(hostport, {":"})
      port        == IF c = 0 THEN <<>> ELSE From(hostport, c + 1)
  IN  IF port = <<>> THEN 80 ELSE DecVal(port)

(***************************************************************************)
(* Option<String>                                                          *)
(***************************************************************************)
None == [some |-> FALSE, val |-> <<>>]

Some(v) == [some |-> TRUE, val |-> v]

(***************************************************************************)
(* extract_code: the second whitespace-separated token of the request      *)
(* line, appended to "http://localhost", parsed as a URL; the value of the *)
(* first query pair whose key is "code".                                   *)
(***************************************************************************)
LocalhostUrl == HttpScheme \o <<"l", "o", "c", "a", "l", "h", "o", "s", "t">>

CodeKey == <<"c", "o", "d", "e">>

\* variant: the last pair whose key is "code" is taken
extract_code_last(request_line) ==
  LET toks == split_whitespace(request_line)
  IN  IF Len(toks) < 2 THEN None
      ELSE LET parsed == Url_parse(LocalhostUrl \o toks[2])
           IN  IF ~parsed.ok THEN None
               ELSE LET pairs == query_pairs(parsed.query)
                        i     == LastIn([k \in 1..Len(pairs) |-> pairs[k].key], {CodeKey})
                    IN  IF i = 0 THEN None ELSE Some(pairs[i].value)

\* variant: an empty value is no code
extract_code_nonempty(request_line) ==
  LET toks == split_whitespace(request_line)
  IN  IF Len(toks) < 2 THEN None
      ELSE LET parsed == Url_parse(LocalhostUrl \o toks[2])
           IN  IF ~parsed.ok THEN None
               ELSE LET pairs == query_pairs(parsed.query)
                        i     == FirstIn([k \in 1..Len(pairs) |-> pairs[k].key], {CodeKey})
                    IN  IF i = 0 \/ pairs[i].value = <<>> THEN None ELSE Some(pairs[i].value)

extract_code(request_line) ==
  LET toks == split_whitespace(request_line)
  IN  IF Len(toks) < 2 THEN None
      ELSE LET parsed == Url_parse(LocalhostUrl \o toks[2])
           IN  IF ~parsed.ok THEN None
               ELSE LET pairs == query_pairs(parsed.query)
                        i     == FirstIn([k \in 1..Len(pairs) |-> pairs[k].key], {CodeKey})
                    IN  IF i = 0 THEN None ELSE Some(pairs[i].value)

(***************************************************************************)
(* The token endpoint.  A JSON body is modelled by the set of the fields   *)
(* it carries and their values; a field it does not carry holds the        *)
(* default of its type so that equal bodies are equal records.             *)
(***************************************************************************)
Fields == {"access_token", "token_type", "expires_in", "refresh_token"}

Body(p, at, tt, ei, rt) ==
  [json          |-> TRUE,
   present       |-> p,
   access_token  |-> IF "access_token" \in p THEN at ELSE "",
   token_type    |-> IF "token_type" \in p THEN tt ELSE "",
   expires_in    |-> IF "expires_in" \in p THEN ei ELSE 0,
   refresh_token |-> IF "refresh_token" \in p THEN rt ELSE ""]

\* a body that is not JSON at all
NotJson ==
  [json |-> FALSE, present |-> {}, access_token |-> "", token_type |-> "",
   expires_in |-> 0, refresh_token |-> ""]

\* the body of an error response: JSON without any of the token fields
ErrorBody == Body({}, "", "", 0, "")

\* the access and refresh token of the well-formed bodies
TokenPairs == {<<"AT1", "RT1">>, <<"AT2", "RT2">>, <<"AT2", "">>, <<"", "RT1">>}

WellFormedBodies == {Body(Fields, tp[1], "Bearer", 3600, tp[2]) : tp \in TokenPairs}

\* bodies that lack one field, or carry a negative expires_in
DefectiveBodies ==
  {Body(Fields \ {f}, "AT2", "Bearer", 3600, "") : f \in Fields}
  \cup {Body(Fields, "AT1", "Bearer", -1, "RT1")}

Bodies == WellFormedBodies \cup DefectiveBodies \cup {NotJson}

Statuses == {200, 400, 401}

\* StatusCode::is_success
is_success(status) == 200 <= status /\ status <= 299

\* what a POST to the token endpoint can come to: no response at all, an
\* error status, or a 2xx status with some body
NoResponse == [sent |-> FALSE, status |-> 0, body |-> NotJson]

Outcomes ==
  {NoResponse}
  \cup {[sent |-> TRUE, status |-> st, body |-> ErrorBody] : st \in {x \in Statuses : ~is_success(x)}}
  \cup {[sent |-> TRUE, status |-> st, body |-> b] : st \in {x \in Statuses : is_success(x)}, b \in Bodies}

(***************************************************************************)
(* AuthResponse and its deserialization (derive(Deserialize)): all four    *)
(* fields are required and expires_in is a u64, so not negative (no body  *)
(* of the model exceeds its upper end); fields the struct does not name   *)
(* are ignored.                                                            *)
(***************************************************************************)
AuthResponse(at, tt, ei, rt) ==
  [access_token |-> at, token_type |-> tt, expires_in |-> ei, refresh_token |-> rt]

EmptyAuthResponse == AuthResponse("", "", 0, "")

\* variant: a field the body lacks takes its default (#[serde(default)] on
\* the struct)
json_defaults(body) ==
  IF body.json /\ 0 <= body.expires_in
  THEN [ok |-> TRUE,
        val |-> AuthResponse(body.access_token, body.token_type,
                             body.expires_in, body.refresh_token)]
  ELSE [ok |-> FALSE, val |-> EmptyAuthResponse]

\* variant: token_type is not required (#[serde(default)] on the field)
json_token_type_optional(body) ==
  IF /\ body.json
     /\ Fields \ {"token_type"} \subseteq body.present
     /\ 0 <= body.expires_in
  THEN [ok |-> TRUE,
        val |-> AuthResponse(body.access_token, body.token_type,
                             body.expires_in, body.refresh_token)]
  ELSE [ok |-> FALSE, val |-> EmptyAuthResponse]

json(body) ==
  IF /\ body.json
     /\ body.present = Fields
     /\ 0 <= body.expires_in
  THEN [ok |-> TRUE,
        val |-> AuthResponse(body.access_token, body.token_type,
                             body.expires_in, body.refresh_token)]
  ELSE [ok |-> FALSE, val |-> EmptyAuthResponse]

(***************************************************************************)
(* Result<AuthResponse, Box<dyn Error>>.  err names the failing call.      *)
(***************************************************************************)
TokenOk(resp) == [kind |-> "ok", val |-> resp, err |-> "", status |-> 0]

TokenErr(e, st) == [kind |-> "err", val |-> EmptyAuthResponse, err |-> e, status |-> st]

NoTokenResult == [kind |-> "none", val |-> EmptyAuthResponse, err |-> "", status |-> 0]

(***************************************************************************)
(* The type of the value inside the Box<dyn Error>: `?` on send() and on   *)
(* json() boxes a reqwest::Error, format!(..).into() boxes a String, and   *)
(* `?` on the calls of get_auth_code boxes a std::io::Error.               *)
(***************************************************************************)
error_type(e) ==
  IF e \in {"send", "json"} THEN "reqwest::Error"
  ELSE IF e = "status" THEN "String"
  ELSE "std::io::Error"

(***************************************************************************)
(* get_spotify_token, past the request: the result for an outcome of the   *)
(* POST.                                                                   *)
(***************************************************************************)
\* variant: the status is not looked at, the body is parsed whatever it is
get_spotify_token_any_status(outcome) ==
  IF ~outcome.sent THEN TokenErr("send", 0)
  ELSE LET parsed == json(outcome.body)
       IN  IF parsed.ok THEN TokenOk(parsed.val) ELSE TokenErr("json", 0)

get_spotify_token(outcome) ==
  IF ~outcome.sent THEN TokenErr("send", 0)
  ELSE IF is_success(outcome.status)
       THEN LET parsed == json(outcome.body)
            IN  IF parsed.ok THEN TokenOk(parsed.val) ELSE TokenErr("json", 0)
       ELSE TokenErr("status", outcome.status)

(***************************************************************************)
(* refresh_spotify_token, past the request: as get_spotify_token, and an   *)
(* empty refresh_token of the response is replaced by the one passed in.   *)
(***************************************************************************)
\* variant: the refresh token passed in always replaces that of the response
reconcile_always(resp, refresh_token) == [resp EXCEPT !.refresh_token = refresh_token]

\* variant: the response is returned as it came
reconcile_never(resp, refresh_token) == resp

reconcile(resp, refresh_token) ==
  IF resp.refresh_token = ""
  THEN [resp EXCEPT !.refresh_token = refresh_token]
  ELSE resp

refresh_spotify_token(refresh_token, outcome) ==
  IF ~outcome.sent THEN TokenErr("send", 0)
  ELSE IF is_success(outcome.status)
       THEN LET parsed == json(outcome.body)
            IN  IF parsed.ok
                THEN TokenOk(reconcile(parsed.val, refresh_token))
                ELSE TokenErr("json", 0)
       ELSE TokenErr("status", outcome.status)

(***************************************************************************)
(* The request lines a client of the listener may send.  Each is the text  *)
(* read_line returns: the first line of the request with its line end.     *)
(***************************************************************************)
RequestHead ==
  <<"G", "E", "T", " ">>

RequestTail ==
  <<" ", "H", "T", "T", "P", "/", "1", ".", "1", "\r", "\n">>

RequestLine(target) == RequestHead \o target \o RequestTail

Callback ==
  <<"/", "c", "a", "l", "l", "b", "a", "c", "k">>

\* the raw text of a code, as it stands after "?code=" in the request line
CodePlain ==
  <<"A", "B">>

CodeEncoded ==
  <<"A", "+", "%", "2", "F">>

RawCodes == {CodePlain, CodeEncoded, <<>>}

CodeParam ==
  <<"?", "c", "o", "d", "e", "=">>

CodeTarget(c) == Callback \o CodeParam \o c

DeniedTarget ==
  <<"/", "c", "a", "l", "l", "b", "a", "c", "k", "?", "e", "r", "r", "o",
    "r", "=", "a", "c", "c", "e", "s", "s", "_", "d", "e", "n", "i", "e",
    "d">>

FaviconTarget ==
  <<"/", "f", "a", "v", "i", "c", "o", "n", ".", "i", "c", "o">>

RequestLines ==
  {RequestLine(CodeTarget(c)) : c \in RawCodes}
  \cup {RequestLine(DeniedTarget), RequestLine(FaviconTarget)}

(***************************************************************************)
(* Request lines for extract_code on its own, given by their parts: the    *)
(* shape of the line and the pairs of its query, each key and value as it  *)
(* stands in the line (raw) with the text it is the encoding of (dec) and, *)
(* for a value, what percent-decoding alone makes of it (pct).             *)
(***************************************************************************)
ExtractKeys ==
  {[raw |-> <<"c", "o", "d", "e">>,           dec |-> <<"c", "o", "d", "e">>],
   [raw |-> <<"e", "r", "r", "o", "r">>,      dec |-> <<"e", "r", "r", "o", "r">>],
   [raw |-> <<"c", "o", "d", "e", "x">>,      dec |-> <<"c", "o", "d", "e", "x">>],
   [raw |-> <<"c", "%", "6", "F", "d", "e">>, dec |-> <<"c", "o", "d", "e">>]}

ExtractValues ==
  {[raw |-> <<"A", "B">>,                dec |-> <<"A", "B">>,      pct |-> <<"A", "B">>],
   [raw |-> <<"A", "+", "%", "2", "F">>, dec |-> <<"A", " ", "/">>, pct |-> <<"A", "+", "/">>],
   [raw |-> <<"a", "=", "b">>,           dec |-> <<"a", "=", "b">>, pct |-> <<"a", "=", "b">>],
   [raw |-> <<>>,                        dec |-> <<>>,              pct |-> <<>>]}

NoValue == [raw |-> <<>>, dec |-> <<>>, pct |-> <<>>]

\* a pair written "key=value", or "key" alone
ExtractPairs ==
  [key : ExtractKeys, value : ExtractValues, eq : {TRUE}]
  \cup [key : ExtractKeys, value : {NoValue}, eq : {FALSE}]

PairSeqs == UNION {[1..n -> ExtractPairs] : n \in 0..MaxPairs}

LineShapes == {"empty", "one_token", "bad_port", "path", "fragment"}

ParseInputs == [shape : LineShapes, pairs : PairSeqs]

NoParseInput == [shape |-> "", pairs |-> <<>>]

PairText(p) == p.key.raw \o (IF p.eq THEN <<"=">> ELSE <<>>) \o p.value.raw

RECURSIVE QueryText(_)
QueryText(ps) ==
  IF ps = <<>> THEN <<>>
  ELSE IF Len(ps) = 1 THEN PairText(ps[1])
  ELSE PairText(ps[1]) \o <<"&">> \o QueryText(Tail(ps))

\* a port that does not fit 16 bits, so that the URL does not parse
BadPort == <<":", "9", "9", "9", "9", "9", "9">>

LineOf(in) ==
  LET query == <<"?">> \o QueryText(in.pairs)
  IN  CASE in.shape = "empty"     -> <<>>
        [] in.shape = "one_token" -> <<"G", "E", "T", "\r", "\n">>
        [] in.shape = "bad_port"  -> RequestLine(BadPort \o Callback \o query)
        [] in.shape = "path"      -> RequestLine(Callback \o query)
        [] in.shape = "fragment"  -> RequestLine(Callback \o <<"#", "f">> \o query)
        [] OTHER                  -> <<>>

\* extract_code has not been applied
NotExtracted == [done |-> FALSE, out |-> None]

(***************************************************************************)
(* The authorization URL.  urlencoding::encode keeps the unreserved        *)
(* characters (ASCII letters and digits, "-", "_", ".", "~") and writes    *)
(* every other byte as "%" and two upper-case hex digits.  get_auth_code   *)
(* encodes redirect_uri and scope and puts client_id in as it is;          *)
(* SpotifyClient::get_auth_url encodes nothing.                            *)
(***************************************************************************)
CodeOf(c) == CHOOSE n \in 0..127 : Ascii[n + 1] = c

Unreserved ==
  {Ascii[n + 1] : n \in (48..57) \cup (65..90) \cup (97..122)} \cup {"-", "_", ".", "~"}

encode_char(c) ==
  IF c \in Unreserved THEN <<c>>
  ELSE <<"%", HexUpper[(CodeOf(c) \div 16) + 1], HexUpper[(CodeOf(c) % 16) + 1]>>

RECURSIVE encode(_)
encode(s) == IF s = <<>> THEN <<>> ELSE encode_char(Head(s)) \o encode(Tail(s))

AuthorizeClientId ==
  <<"h", "t", "t", "p", "s", ":", "/", "/", "a", "c", "c", "o", "u", "n",
    "t", "s", ".", "s", "p", "o", "t", "i", "f", "y", ".", "c", "o", "m",
    "/", "a", "u", "t", "h", "o", "r", "i", "z", "e", "?", "c", "l", "i",
    "e", "n", "t", "_", "i", "d", "=">>

AuthorizeRedirectUri ==
  <<"&", "r", "e", "s", "p", "o", "n", "s", "e", "_", "t", "y", "p", "e",
    "=", "c", "o", "d", "e", "&", "r", "e", "d", "i", "r", "e", "c", "t",
    "_", "u", "r", "i", "=">>

AuthorizeScope ==
  <<"&", "s", "c", "o", "p", "e", "=">>

\* the format! of get_auth_code
auth_url_of(client_id, redirect_uri, scope) ==
  AuthorizeClientId \o client_id \o AuthorizeRedirectUri \o encode(redirect_uri)
    \o AuthorizeScope \o encode(scope)

\* the format! of SpotifyClient::get_auth_url
get_auth_url(client_id, redirect_uri, scope) ==
  AuthorizeClientId \o client_id \o AuthorizeRedirectUri \o redirect_uri
    \o AuthorizeScope \o scope

\* the URL and the function that formatted it
BuiltUrl(by, text) == [by |-> by, text |-> text]

NoUrl == BuiltUrl("", <<>>)

ClientIds ==
  {<<"i", "d">>,
   <<"a", "&", "b">>,
   <<"a", "=", "b">>,
   <<"a", "#", "b">>,
   <<"a", " ", "b">>,
   <<"a", "%", "4", "1">>}

RedirectUris ==
  {<<"h", "t", "t", "p", ":", "/", "/", "l", "o", "c", "a", "l", "h", "o",
     "s", "t", ":", "3", "0", "0", "0", "/", "c", "a", "l", "l", "b", "a",
     "c", "k">>,
   <<"h", "t", "t", "p", ":", "/", "/", "h", "/", "c", "?", "x", "=", "1",
     "&", "y", "=", "2">>,
   <<"h", "t", "t", "p", ":", "/", "/", "h", "/", "c", "#", "f">>,
   <<"h", "t", "t", "p", ":", "/", "/", "h", "/", "a", " ", "b">>,
   <<"h", "t", "t", "p", ":", "/", "/", "h", "/", "%", "4", "1", "+">>}

Scopes ==
  {<<"u", "s", "e", "r", "-", "t", "o", "p", "-", "r", "e", "a", "d">>,
   <<"a", " ", "b">>,
   <<"a", "&", "b", "=", "c">>,
   <<"a", "#", "b">>,
   <<"a", "%", "2", "0", "+", "b">>}

UrlInputs ==
  [client_id : ClientIds, redirect_uri : RedirectUris, scope : Scopes]

(***************************************************************************)
(* State.                                                                  *)
(***************************************************************************)
VARIABLES
  pc,            \* where authenticate_spotify stands: "idle" (not running),
                 \* "open", "bind", "listening" (inside get_auth_code),
                 \* "exchange" (about to call get_spotify_token)
  calls,         \* calls of authenticate_spotify so far
  browserOpens,  \* calls of webbrowser::open in this call
  browserUp,     \* webbrowser::open succeeded in this call
  binds,         \* calls of TcpListener::bind in this call
  listenerBound, \* the listener of get_auth_code holds port 3000
  portBusy,      \* another process holds port 3000
  pending,       \* what listener.incoming() yields next, if anything
  acceptErrs,    \* failed accepts of this call
  conns,         \* the connections accepted in this call, in order
  codeResult,    \* what get_auth_code returned in this call
  posts,         \* POSTs to the token endpoint in this call
  lastPost,      \* the last POST to the token endpoint and its result
  authResult,    \* what authenticate_spotify returned
  tokens,        \* the AuthResponse last returned by get_spotify_token or
                 \* refresh_spotify_token
  refreshes,     \* calls of refresh_spotify_token so far
  chainStart,    \* the refresh token get_spotify_token returned last
  exchangeErrs,  \* the errors authenticate_spotify returned from a failed
                 \* exchange so far: what failed, the type of the error
                 \* get_spotify_token returned, the status its message
                 \* carries and the variant it was mapped to
  resource,      \* the call of get_top_tracks that followed this call of
                 \* authenticate_spotify, and the token it presented
  urlIn,         \* the arguments the authorization URL is formatted from
  auth_url,      \* the authorization URL formatted from them
  auth_response, \* the local `auth_response` of a refresh_spotify_token call
                 \* that has parsed its response and not yet returned
  printed,       \* the messages printed in this call of authenticate_spotify
                 \* and after it
  parseIn,       \* the request line extract_code is given, as its parts
  extracted,     \* what extract_code returned for it
  analysis       \* the steps of run_music_analysis around authenticate_spotify
                 \* and get_top_tracks, each with its result

vars ==
  <<pc, calls, browserOpens, browserUp, binds, listenerBound, portBusy, pending,
    acceptErrs, conns, codeResult, posts, lastPost, authResult, tokens, refreshes,
    chainStart, exchangeErrs, resource, urlIn, auth_url, auth_response, printed,
    parseIn, extracted, analysis>>

\* the variables of the authorization URL
urlVars == <<urlIn, auth_url>>

\* the variables of extract_code taken on its own
parseVars == <<parseIn, extracted>>

\* the variables of the rest of the flow
flowVars ==
  <<pc, calls, browserOpens, browserUp, binds, listenerBound, portBusy, pending,
    acceptErrs, conns, codeResult, posts, lastPost, authResult, tokens, refreshes,
    chainStart, exchangeErrs, resource, auth_response, printed, analysis>>

(***************************************************************************)
(* What println! writes: the format string and what is put into its "{}".  *)
(***************************************************************************)
Message(fmt, args) == [fmt |-> fmt, args |-> args]

getting_code_message == Message("Getting authorization code...", {})

listening_message ==
  Message("Listening for callback on http://localhost:3000/callback", {})

\* println!("Error: {}", e) of a failed accept
accept_error_message == Message("Error: {}", {"io::Error"})

\* variant: the code is put into the message
code_obtained_message_with_code(code) ==
  Message("Authorization code obtained: {}", {"code"})

code_obtained_message(code) ==
  Message("Authorization code obtained successfully!", {})

\* variant: the response is printed with {:?}
token_obtained_message_debug(resp) ==
  Message("Access token obtained: {:?}", {"access_token", "refresh_token"})

token_obtained_message(resp) ==
  Message("Access token obtained successfully!", {})

fetching_message == Message("Fetching top tracks...", {})

\* println!("{}", response) of roast_or_toast_music_taste
response_message == Message("{}", {"response"})

\* nothing waits to be accepted
NoConn == [kind |-> "none", line |-> <<>>]

\* accept fails: incoming() yields Err
AcceptErr == [kind |-> "accept_err", line |-> <<>>]

Conn(line) == [kind |-> "conn", line |-> line]

\* Result<String, Box<dyn Error>> of get_auth_code; kind "none": no return,
\* the loop goes on
CodeOk(code) == [kind |-> "ok", code |-> code, err |-> ""]

CodeErr(e) == [kind |-> "err", code |-> <<>>, err |-> e]

NoCode == [kind |-> "none", code |-> <<>>, err |-> ""]

\* Result<String, MusicAnalysisError> of authenticate_spotify
AuthOk(token) ==
  [kind |-> "ok", token |-> token, variant |-> "", cause |-> "", status |-> 0]

\* variant: a failure is turned into an empty token (unwrap_or_default)
AuthErr_placeholder(cause, st) ==
  [kind |-> "ok", token |-> "", variant |-> "", cause |-> cause, status |-> st]

\* map_err(|e| MusicAnalysisError::SpotifyAuth(e.to_string()))
AuthErr(cause, st) ==
  [kind |-> "err", token |-> "", variant |-> "SpotifyAuth", cause |-> cause, status |-> st]

NoAuth == [kind |-> "none", token |-> "", variant |-> "", cause |-> "", status |-> 0]

NoTokens == [some |-> FALSE, val |-> EmptyAuthResponse]

\* get_top_tracks has not been called
NoResource == [called |-> FALSE, token |-> "", result |-> ""]

\* run_music_analysis has done none of its other steps
NoAnalysis == [config |-> "", preferences |-> "", roast |-> ""]

\* the configuration of SpotifyConfig::from_env, as far as it is fixed, with
\* a client id as the provider issues them
ConfigUrlInput ==
  [client_id    |-> <<"i", "d">>,
   redirect_uri |-> HttpScheme \o <<"l", "o", "c", "a", "l", "h", "o", "s", "t", ":", "3", "0", "0", "0",
                                    "/", "c", "a", "l", "l", "b", "a", "c", "k">>,
   scope        |-> <<"u", "s", "e", "r", "-", "t", "o", "p", "-", "r", "e", "a", "d">>]

NoPost ==
  [grant |-> "", code |-> <<>>, refresh_token |-> "", outcome |-> NoResponse,
   result |-> NoTokenResult]

Init ==
  /\ pc = "idle"
  /\ calls = 0
  /\ browserOpens = 0
  /\ browserUp = FALSE
  /\ binds = 0
  /\ listenerBound = FALSE
  /\ portBusy \in BOOLEAN
  /\ pending = NoConn
  /\ acceptErrs = 0
  /\ conns = <<>>
  /\ codeResult = NoCode
  /\ posts = 0
  /\ lastPost = NoPost
  /\ authResult = NoAuth
  /\ tokens = NoTokens
  /\ refreshes = 0
  /\ chainStart = ""
  /\ exchangeErrs = {}
  /\ resource = NoResource
  /\ urlIn = ConfigUrlInput
  /\ auth_url = NoUrl
  /\ auth_response = NoTokens
  /\ printed = {}
  /\ parseIn = NoParseInput
  /\ extracted = NotExtracted
  /\ analysis = NoAnalysis

(***************************************************************************)
(* authenticate_spotify is called: it prints and calls get_auth_code,      *)
(* which formats the authorization URL.                                    *)
(***************************************************************************)
Authenticate ==
  /\ pc = "idle"
  /\ calls < MaxCalls
  /\ calls' = calls + 1
  /\ pc' = "open"
  /\ browserOpens' = 0
  /\ browserUp' = FALSE
  /\ binds' = 0
  /\ acceptErrs' = 0
  /\ conns' = <<>>
  /\ codeResult' = NoCode
  /\ posts' = 0
  /\ authResult' = NoAuth
  /\ UNCHANGED <<listenerBound, portBusy, pending, lastPost, tokens, refreshes, chainStart>>
  /\ resource' = NoResource
  /\ auth_url' = BuiltUrl("get_auth_code",
                          auth_url_of(urlIn.client_id, urlIn.redirect_uri, urlIn.scope))
  /\ UNCHANGED <<exchangeErrs, urlIn>>
  /\ UNCHANGED auth_response
  /\ printed' = {getting_code_message}
  /\ UNCHANGED parseVars
  /\ UNCHANGED analysis

(***************************************************************************)
(* get_auth_code returns r to authenticate_spotify: an error is mapped and *)
(* returned, a code is kept for the exchange.                              *)
(***************************************************************************)
\* variant: the error of get_auth_code is not returned, the exchange follows
ReturnCode_ignore_err(r) ==
  /\ codeResult' = r
  /\ pc' = "exchange"
  /\ UNCHANGED authResult

ReturnCode(r) ==
  /\ codeResult' = r
  /\ IF r.kind = "ok"
     THEN pc' = "exchange" /\ UNCHANGED authResult
     ELSE pc' = "idle" /\ authResult' = AuthErr(r.err, 0)

(***************************************************************************)
(* webbrowser::open(&auth_url)?                                            *)
(***************************************************************************)
open_browser(launched) == IF launched THEN NoCode ELSE CodeErr("browser")

OpenBrowser ==
  /\ pc = "open"
  /\ \E launched \in BOOLEAN :
       LET r == open_browser(launched)
       IN  /\ browserOpens' = browserOpens + 1
           /\ browserUp' = launched
           /\ IF r.kind = "none"
              THEN pc' = "bind" /\ UNCHANGED <<codeResult, authResult>>
              ELSE ReturnCode(r)
  /\ UNCHANGED <<calls, binds, listenerBound, portBusy, pending, acceptErrs, conns,
                 posts, lastPost, tokens, refreshes, chainStart>>
  /\ UNCHANGED <<exchangeErrs, resource, urlVars>>
  /\ UNCHANGED auth_response
  /\ UNCHANGED printed
  /\ UNCHANGED parseVars
  /\ UNCHANGED analysis

(***************************************************************************)
(* TcpListener::bind("127.0.0.1:3000")?  It fails when the port is taken.  *)
(***************************************************************************)
\* the address the listener is bound to, and the port in it
BindAddr ==
  <<"1", "2", "7", ".", "0", ".", "0", ".", "1", ":", "3", "0", "0", "0">>

addr_port(addr) == DecVal(From(addr, LastIn(addr, {":"}) + 1))

bind(busy) == IF busy THEN CodeErr("bind") ELSE NoCode

Bind ==
  /\ pc = "bind"
  /\ LET r == bind(portBusy)
     IN  /\ binds' = binds + 1
         /\ listenerBound' = (r.kind = "none")
         /\ IF r.kind = "none"
            THEN pc' = "listening" /\ UNCHANGED <<codeResult, authResult>>
            ELSE ReturnCode(r)
  /\ UNCHANGED <<calls, browserOpens, browserUp, portBusy, pending, acceptErrs, conns,
                 posts, lastPost, tokens, refreshes, chainStart>>
  /\ UNCHANGED <<exchangeErrs, resource, urlVars>>
  /\ UNCHANGED auth_response
  /\ printed' = printed \cup (IF bind(portBusy).kind = "none" THEN {listening_message} ELSE {})
  /\ UNCHANGED parseVars
  /\ UNCHANGED analysis

(***************************************************************************)
(* A client connects to the bound listener, or an accept is about to fail. *)
(***************************************************************************)
Arrive ==
  /\ pc = "listening"
  /\ listenerBound
  /\ pending = NoConn
  /\ Len(conns) + acceptErrs < MaxAccepts
  /\ \E item \in {AcceptErr} \cup {Conn(l) : l \in RequestLines} : pending' = item
  /\ UNCHANGED <<pc, calls, browserOpens, browserUp, binds, listenerBound, portBusy,
                 acceptErrs, conns, codeResult, posts, lastPost, authResult, tokens,
                 refreshes, chainStart>>
  /\ UNCHANGED <<exchangeErrs, resource, urlVars>>
  /\ UNCHANGED auth_response
  /\ UNCHANGED printed
  /\ UNCHANGED parseVars
  /\ UNCHANGED analysis

(***************************************************************************)
(* The arm Ok(mut stream) of the loop over listener.incoming(): read one   *)
(* line; if it carries a code, write the response and return the code;     *)
(* otherwise fall out of the arm, and the loop goes on.  `?` returns the   *)
(* error of read_line and of write_all.  wrote counts the responses        *)
(* written to the stream.                                                  *)
(***************************************************************************)
\* variant: the response is written to every connection whose line was read
handle_stream_always_respond(line, readOk, writeOk) ==
  IF ~readOk THEN [ret |-> CodeErr("read"), wrote |-> 0]
  ELSE LET found == extract_code(line)
       IN  IF ~writeOk THEN [ret |-> CodeErr("write"), wrote |-> 0]
           ELSE IF found.some
                THEN [ret |-> CodeOk(found.val), wrote |-> 1]
                ELSE [ret |-> NoCode, wrote |-> 1]

\* variant: the result of write_all is not looked at
handle_stream_ignore_write(line, readOk, writeOk) ==
  IF ~readOk THEN [ret |-> CodeErr("read"), wrote |-> 0]
  ELSE LET found == extract_code(line)
       IN  IF found.some
           THEN [ret |-> CodeOk(found.val), wrote |-> IF writeOk THEN 1 ELSE 0]
           ELSE [ret |-> NoCode, wrote |-> 0]

\* variant: a failed read_line is passed over like a line without a code
handle_stream_skip_read_error(line, readOk, writeOk) ==
  IF ~readOk THEN [ret |-> NoCode, wrote |-> 0]
  ELSE LET found == extract_code(line)
       IN  IF found.some
           THEN IF writeOk
                THEN [ret |-> CodeOk(found.val), wrote |-> 1]
                ELSE [ret |-> CodeErr("write"), wrote |-> 0]
           ELSE [ret |-> NoCode, wrote |-> 0]

handle_stream(line, readOk, writeOk) ==
  IF ~readOk THEN [ret |-> CodeErr("read"), wrote |-> 0]
  ELSE LET found == extract_code(line)
       IN  IF found.some
           THEN IF writeOk
                THEN [ret |-> CodeOk(found.val), wrote |-> 1]
                ELSE [ret |-> CodeErr("write"), wrote |-> 0]
           ELSE [ret |-> NoCode, wrote |-> 0]

\* `stream` is dropped, and so closed, when its arm ends, by return or not
stream_closed(ret) == TRUE

\* variant: the listener outlives a successful return
listener_bound_leak(ret) == ret.kind # "err"

\* `listener` is dropped, and the port released, when get_auth_code returns
listener_bound(ret) == ret.kind = "none"

(***************************************************************************)
(* One turn of the loop `for stream in listener.incoming()`.               *)
(***************************************************************************)
Incoming ==
  /\ pc = "listening"
  /\ pending # NoConn
  /\ pending' = NoConn
  /\ IF pending.kind = "accept_err"
     THEN /\ acceptErrs' = acceptErrs + 1
          /\ UNCHANGED <<pc, conns, codeResult, authResult, listenerBound>>
     ELSE \E readOk, writeOk \in BOOLEAN :
            LET h == handle_stream(pending.line, readOk, writeOk)
            IN  /\ conns' = Append(conns, [line   |-> pending.line,
                                           read   |-> readOk,
                                           wrote  |-> h.wrote,
                                           closed |-> stream_closed(h.ret)])
                /\ listenerBound' = listener_bound(h.ret)
                /\ IF h.ret.kind = "none"
                   THEN UNCHANGED <<pc, codeResult, authResult>>
                   ELSE ReturnCode(h.ret)
                /\ UNCHANGED acceptErrs
  /\ UNCHANGED <<calls, browserOpens, browserUp, binds, portBusy, posts, lastPost,
                 tokens, refreshes, chainStart>>
  /\ UNCHANGED <<exchangeErrs, resource, urlVars>>
  /\ UNCHANGED auth_response
  /\ printed' = printed \cup
       (IF pending.kind = "accept_err" THEN {accept_error_message}
        ELSE IF codeResult'.kind = "ok" THEN {code_obtained_message(codeResult'.code)}
        ELSE {})
  /\ UNCHANGED parseVars
  /\ UNCHANGED analysis

(***************************************************************************)
(* authenticate_spotify calls get_spotify_token with the code: one POST,   *)
(* and the access token of the response, or the mapped error, is returned. *)
(***************************************************************************)
\* variant: a failed POST is sent once more with the same code
Exchange_retry ==
  /\ pc = "exchange"
  /\ \E outcome \in Outcomes :
       LET r == get_spotify_token(outcome)
       IN  /\ lastPost' = [grant |-> "authorization_code", code |-> codeResult.code,
                           refresh_token |-> "", outcome |-> outcome, result |-> r]
           /\ IF r.kind = "ok"
              THEN /\ tokens' = [some |-> TRUE, val |-> r.val]
                   /\ chainStart' = r.val.refresh_token
                   /\ authResult' = AuthOk(r.val.access_token)
                   /\ UNCHANGED exchangeErrs
              ELSE /\ authResult' = AuthErr(r.err, r.status)
                   /\ exchangeErrs' = exchangeErrs \cup
                        {[cause   |-> r.err,
                          type    |-> error_type(r.err),
                          status  |-> r.status,
                          variant |-> AuthErr(r.err, r.status).variant]}
                   /\ UNCHANGED <<tokens, chainStart>>
  /\ posts' = posts + 1
  /\ pc' = IF authResult'.kind = "ok" \/ posts >= 1 THEN "idle" ELSE "exchange"
  /\ UNCHANGED <<calls, browserOpens, browserUp, binds, listenerBound, portBusy, pending,
                 acceptErrs, conns, codeResult, refreshes>>
  /\ UNCHANGED <<resource, urlVars>>
  /\ UNCHANGED auth_response
  /\ printed' = printed \cup
       (IF authResult'.kind = "ok" THEN {token_obtained_message(tokens'.val)} ELSE {})
  /\ UNCHANGED parseVars
  /\ UNCHANGED analysis

Exchange ==
  /\ pc = "exchange"
  /\ \E outcome \in Outcomes :
       LET r == get_spotify_token(outcome)
       IN  /\ lastPost' = [grant |-> "authorization_code", code |-> codeResult.code,
                           refresh_token |-> "", outcome |-> outcome, result |-> r]
           /\ IF r.kind = "ok"
              THEN /\ tokens' = [some |-> TRUE, val |-> r.val]
                   /\ chainStart' = r.val.refresh_token
                   /\ authResult' = AuthOk(r.val.access_token)
                   /\ UNCHANGED exchangeErrs
              ELSE /\ authResult' = AuthErr(r.err, r.status)
                   /\ exchangeErrs' = exchangeErrs \cup
                        {[cause   |-> r.err,
                          type    |-> error_type(r.err),
                          status  |-> r.status,
                          variant |-> AuthErr(r.err, r.status).variant]}
                   /\ UNCHANGED <<tokens, chainStart>>
  /\ posts' = posts + 1
  /\ pc' = "idle"
  /\ UNCHANGED <<calls, browserOpens, browserUp, binds, listenerBound, portBusy, pending,
                 acceptErrs, conns, codeResult, refreshes>>
  /\ UNCHANGED <<resource, urlVars>>
  /\ UNCHANGED auth_response
  /\ printed' = printed \cup
       (IF authResult'.kind = "ok" THEN {token_obtained_message(tokens'.val)} ELSE {})
  /\ UNCHANGED parseVars
  /\ UNCHANGED analysis

(***************************************************************************)
(* run_music_analysis, after authenticate_spotify returned Ok: it calls    *)
(* get_top_tracks with the access token, which goes out as the bearer      *)
(* token of the request.  `?` returns before it when authenticate_spotify  *)
(* returned Err.  get_top_tracks returns the tracks of a 2xx response that *)
(* parses, NetworkError when the request or the parsing fails, SpotifyAuth *)
(* for another status.                                                     *)
(***************************************************************************)
TrackOutcomes ==
  {[sent |-> FALSE, status |-> 0, parses |-> FALSE]}
  \cup [sent : {TRUE}, status : Statuses, parses : BOOLEAN]

get_top_tracks(outcome) ==
  IF ~outcome.sent THEN "NetworkError"
  ELSE IF is_success(outcome.status)
       THEN IF outcome.parses THEN "ok" ELSE "NetworkError"
       ELSE "SpotifyAuth"

\* println!("Top tracks response status: {}", response.status())
status_message(status) == Message("Top tracks response status: {}", {"status"})

TopTracks ==
  /\ pc = "idle"
  /\ authResult.kind = "ok"
  /\ ~resource.called
  /\ \E outcome \in TrackOutcomes :
       /\ resource' = [called |-> TRUE, token |-> authResult.token,
                       result |-> get_top_tracks(outcome)]
       /\ printed' = printed \cup {fetching_message}
                        \cup (IF outcome.sent THEN {status_message(outcome.status)} ELSE {})
  /\ UNCHANGED <<pc, calls, browserOpens, browserUp, binds, listenerBound, portBusy,
                 pending, acceptErrs, conns, codeResult, posts, lastPost, authResult,
                 tokens, refreshes, chainStart, exchangeErrs, urlVars>>
  /\ UNCHANGED auth_response
  /\ UNCHANGED parseVars
  /\ UNCHANGED analysis

(***************************************************************************)
(* The other steps of run_music_analysis, each ended by `?`:               *)
(* SpotifyConfig::from_env before authenticate_spotify, and after          *)
(* get_top_tracks get_user_preferences and roast_or_toast_music_taste,     *)
(* which calls initialize_openai and then generate_ai_response.            *)
(***************************************************************************)
\* SpotifyConfig::from_env: SpotifyAuth when a variable is not set
from_env(idSet, secretSet) == IF idSet /\ secretSet THEN "ok" ELSE "SpotifyAuth"

FromEnv ==
  /\ analysis.config = ""
  /\ calls = 0
  /\ \E idSet, secretSet \in BOOLEAN :
       analysis' = [analysis EXCEPT !.config = from_env(idSet, secretSet)]
  /\ UNCHANGED <<pc, calls, browserOpens, browserUp, binds, listenerBound, portBusy,
                 pending, acceptErrs, conns, codeResult, posts, lastPost, authResult,
                 tokens, refreshes, chainStart, exchangeErrs, resource, auth_response,
                 printed>>
  /\ UNCHANGED <<urlVars, parseVars>>

\* authenticate_spotify(&config), once the configuration is there
RunAuthenticate ==
  /\ analysis.config = "ok"
  /\ calls = 0
  /\ Authenticate

\* get_user_preferences: UserInput when a prompt fails
get_user_preferences(firstOk, secondOk) == IF firstOk /\ secondOk THEN "ok" ELSE "UserInput"

\* variant: the result of get_top_tracks is not looked at
UserPreferences_ignore_tracks ==
  /\ resource.called
  /\ analysis.preferences = ""
  /\ \E firstOk, secondOk \in BOOLEAN :
       analysis' = [analysis EXCEPT !.preferences = get_user_preferences(firstOk, secondOk)]
  /\ UNCHANGED <<pc, calls, browserOpens, browserUp, binds, listenerBound, portBusy,
                 pending, acceptErrs, conns, codeResult, posts, lastPost, authResult,
                 tokens, refreshes, chainStart, exchangeErrs, resource, auth_response,
                 printed>>
  /\ UNCHANGED <<urlVars, parseVars>>

UserPreferences ==
  /\ resource.called
  /\ resource.result = "ok"
  /\ analysis.preferences = ""
  /\ \E firstOk, secondOk \in BOOLEAN :
       analysis' = [analysis EXCEPT !.preferences = get_user_preferences(firstOk, secondOk)]
  /\ UNCHANGED <<pc, calls, browserOpens, browserUp, binds, listenerBound, portBusy,
                 pending, acceptErrs, conns, codeResult, posts, lastPost, authResult,
                 tokens, refreshes, chainStart, exchangeErrs, resource, auth_response,
                 printed>>
  /\ UNCHANGED <<urlVars, parseVars>>

\* roast_or_toast_music_taste: initialize_openai()?, then the prompt and
\* generate_ai_response(..).await?; "init": it returned before the call
roast_or_toast_music_taste(initOk, aiOk) ==
  IF ~initOk THEN [called |-> FALSE, result |-> "init"]
  ELSE IF aiOk THEN [called |-> TRUE, result |-> "ok"]
  ELSE [called |-> TRUE, result |-> "OpenAIError"]

RoastOrToast ==
  /\ analysis.preferences = "ok"
  /\ analysis.roast = ""
  /\ \E initOk, aiOk \in BOOLEAN :
       LET r == roast_or_toast_music_taste(initOk, aiOk)
       IN  /\ analysis' = [analysis EXCEPT !.roast = r.result]
           /\ printed' = printed \cup (IF r.result = "ok" THEN {response_message} ELSE {})
  /\ UNCHANGED <<pc, calls, browserOpens, browserUp, binds, listenerBound, portBusy,
                 pending, acceptErrs, conns, codeResult, posts, lastPost, authResult,
                 tokens, refreshes, chainStart, exchangeErrs, resource, auth_response>>
  /\ UNCHANGED <<urlVars, parseVars>>

(***************************************************************************)
(* refresh_spotify_token is called with the refresh token of the           *)
(* AuthResponse returned last; a caller keeps the response of a successful *)
(* call and nothing of a failed one.                                       *)
(***************************************************************************)
Refresh ==
  /\ pc = "idle"
  /\ tokens.some
  /\ refreshes < MaxRefreshes
  /\ \E outcome \in Outcomes :
       LET r == refresh_spotify_token(tokens.val.refresh_token, outcome)
       IN  /\ lastPost' = [grant |-> "refresh_token", code |-> <<>>,
                           refresh_token |-> tokens.val.refresh_token,
                           outcome |-> outcome, result |-> r]
           /\ IF r.kind = "ok"
              THEN tokens' = [some |-> TRUE, val |-> r.val]
              ELSE UNCHANGED tokens
  /\ refreshes' = refreshes + 1
  /\ UNCHANGED <<pc, calls, browserOpens, browserUp, binds, listenerBound, portBusy,
                 pending, acceptErrs, conns, codeResult, posts, authResult, chainStart>>
  /\ UNCHANGED <<exchangeErrs, resource, urlVars>>
  /\ UNCHANGED auth_response
  /\ UNCHANGED printed
  /\ UNCHANGED parseVars
  /\ UNCHANGED analysis

(***************************************************************************)
(* refresh_spotify_token statement by statement.  The response is parsed   *)
(* into the local `auth_response`, the local is given the refresh token    *)
(* passed in when its own is empty, and the local is returned: the caller  *)
(* has the new AuthResponse from the return on, and its old one until      *)
(* then.                                                                   *)
(***************************************************************************)
\* the POST and `response.json().await?`
refresh_json(outcome) ==
  IF ~outcome.sent THEN TokenErr("send", 0)
  ELSE IF is_success(outcome.status)
       THEN LET parsed == json(outcome.body)
            IN  IF parsed.ok THEN TokenOk(parsed.val) ELSE TokenErr("json", 0)
       ELSE TokenErr("status", outcome.status)

\* variant: the response is parsed into the caller's AuthResponse in place
RefreshSend_in_place ==
  /\ pc = "idle"
  /\ tokens.some
  /\ refreshes < MaxRefreshes
  /\ \E outcome \in Outcomes :
       LET r == refresh_json(outcome)
       IN  /\ lastPost' = [grant |-> "refresh_token", code |-> <<>>,
                           refresh_token |-> tokens.val.refresh_token,
                           outcome |-> outcome,
                           result |-> IF r.kind = "ok" THEN NoTokenResult ELSE r]
           /\ IF r.kind = "ok"
              THEN /\ auth_response' = [some |-> TRUE, val |-> r.val]
                   /\ tokens' = [some |-> TRUE, val |-> r.val]
                   /\ pc' = "refresh_reconcile"
                   /\ UNCHANGED refreshes
              ELSE /\ refreshes' = refreshes + 1
                   /\ UNCHANGED <<auth_response, pc, tokens>>
  /\ UNCHANGED <<calls, browserOpens, browserUp, binds, listenerBound, portBusy,
                 pending, acceptErrs, conns, codeResult, posts, authResult, chainStart>>
  /\ UNCHANGED <<exchangeErrs, resource, urlVars>>
  /\ UNCHANGED printed
  /\ UNCHANGED parseVars
  /\ UNCHANGED analysis

RefreshSend ==
  /\ pc = "idle"
  /\ tokens.some
  /\ refreshes < MaxRefreshes
  /\ \E outcome \in Outcomes :
       LET r == refresh_json(outcome)
       IN  /\ lastPost' = [grant |-> "refresh_token", code |-> <<>>,
                           refresh_token |-> tokens.val.refresh_token,
                           outcome |-> outcome,
                           result |-> IF r.kind = "ok" THEN NoTokenResult ELSE r]
           /\ IF r.kind = "ok"
              THEN /\ auth_response' = [some |-> TRUE, val |-> r.val]
                   /\ pc' = "refresh_reconcile"
                   /\ UNCHANGED refreshes
              ELSE /\ refreshes' = refreshes + 1
                   /\ UNCHANGED <<auth_response, pc>>
  /\ UNCHANGED <<calls, browserOpens, browserUp, binds, listenerBound, portBusy,
                 pending, acceptErrs, conns, codeResult, posts, authResult, tokens,
                 chainStart>>
  /\ UNCHANGED <<exchangeErrs, resource, urlVars>>
  /\ UNCHANGED printed
  /\ UNCHANGED parseVars
  /\ UNCHANGED analysis

\* `if auth_response.refresh_token.is_empty() { .. }`
RefreshReconcile ==
  /\ pc = "refresh_reconcile"
  /\ auth_response' = [auth_response EXCEPT
                         !.val = reconcile(auth_response.val, lastPost.refresh_token)]
  /\ pc' = "refresh_return"
  /\ UNCHANGED <<calls, browserOpens, browserUp, binds, listenerBound, portBusy,
                 pending, acceptErrs, conns, codeResult, posts, lastPost, authResult,
                 tokens, refreshes, chainStart>>
  /\ UNCHANGED <<exchangeErrs, resource, urlVars>>
  /\ UNCHANGED printed
  /\ UNCHANGED parseVars
  /\ UNCHANGED analysis

\* `Ok(auth_response)`
RefreshReturn ==
  /\ pc = "refresh_return"
  /\ tokens' = auth_response
  /\ lastPost' = [lastPost EXCEPT !.result = TokenOk(auth_response.val)]
  /\ auth_response' = NoTokens
  /\ refreshes' = refreshes + 1
  /\ pc' = "idle"
  /\ UNCHANGED <<calls, browserOpens, browserUp, binds, listenerBound, portBusy,
                 pending, acceptErrs, conns, codeResult, posts, authResult, chainStart>>
  /\ UNCHANGED <<exchangeErrs, resource, urlVars>>
  /\ UNCHANGED printed
  /\ UNCHANGED parseVars
  /\ UNCHANGED analysis

(***************************************************************************)
(* Another process takes port 3000 while the listener does not hold it, or *)
(* gives it up.                                                            *)
(***************************************************************************)
OtherBinds ==
  /\ ~listenerBound
  /\ ~portBusy
  /\ portBusy' = TRUE
  /\ UNCHANGED <<pc, calls, browserOpens, browserUp, binds, listenerBound, pending,
                 acceptErrs, conns, codeResult, posts, lastPost, authResult, tokens,
                 refreshes, chainStart>>
  /\ UNCHANGED <<exchangeErrs, resource, urlVars>>
  /\ UNCHANGED auth_response
  /\ UNCHANGED printed
  /\ UNCHANGED parseVars
  /\ UNCHANGED analysis

OtherReleases ==
  /\ portBusy
  /\ portBusy' = FALSE
  /\ UNCHANGED <<pc, calls, browserOpens, browserUp, binds, listenerBound, pending,
                 acceptErrs, conns, codeResult, posts, lastPost, authResult, tokens,
                 refreshes, chainStart>>
  /\ UNCHANGED <<exchangeErrs, resource, urlVars>>
  /\ UNCHANGED auth_response
  /\ UNCHANGED printed
  /\ UNCHANGED parseVars
  /\ UNCHANGED analysis

Next ==
  \/ Authenticate
  \/ OpenBrowser
  \/ Bind
  \/ Arrive
  \/ Incoming
  \/ Exchange
  \/ TopTracks
  \/ Refresh
  \/ OtherBinds
  \/ OtherReleases

Spec == Init /\ [][Next]_vars

(***************************************************************************)
(* The steps of the program itself are taken when they can be: a running   *)
(* call goes on.  Nothing obliges a client to connect, nor a caller to     *)
(* call.                                                                   *)
(***************************************************************************)
FairSpec ==
  /\ Spec
  /\ WF_vars(OpenBrowser)
  /\ WF_vars(Bind)
  /\ WF_vars(Incoming)
  /\ WF_vars(Exchange)

(***************************************************************************)
(* One run of run_music_analysis: the configuration, one call of           *)
(* authenticate_spotify, get_top_tracks, the prompts, the generated text.  *)
(***************************************************************************)
RunNext ==
  \/ FromEnv
  \/ RunAuthenticate
  \/ OpenBrowser
  \/ Bind
  \/ Arrive
  \/ Incoming
  \/ Exchange
  \/ TopTracks
  \/ UserPreferences
  \/ RoastOrToast
  \/ OtherBinds
  \/ OtherReleases

RunSpec == Init /\ [][RunNext]_vars

(***************************************************************************)
(* The flow with refresh_spotify_token taken statement by statement.       *)
(***************************************************************************)
StepNext ==
  \/ Authenticate
  \/ OpenBrowser
  \/ Bind
  \/ Arrive
  \/ Incoming
  \/ Exchange
  \/ TopTracks
  \/ RefreshSend
  \/ RefreshReconcile
  \/ RefreshReturn
  \/ OtherBinds
  \/ OtherReleases

StepSpec == Init /\ [][StepNext]_vars

(***************************************************************************)
(* The authorization URL on its own: the arguments are drawn from          *)
(* UrlInputs and one of the two functions formats the URL.                 *)
(***************************************************************************)
UrlInit ==
  /\ pc = "idle"
  /\ calls = 0
  /\ browserOpens = 0
  /\ browserUp = FALSE
  /\ binds = 0
  /\ listenerBound = FALSE
  /\ portBusy = FALSE
  /\ pending = NoConn
  /\ acceptErrs = 0
  /\ conns = <<>>
  /\ codeResult = NoCode
  /\ posts = 0
  /\ lastPost = NoPost
  /\ authResult = NoAuth
  /\ tokens = NoTokens
  /\ refreshes = 0
  /\ chainStart = ""
  /\ exchangeErrs = {}
  /\ resource = NoResource
  /\ urlIn \in UrlInputs
  /\ auth_url = NoUrl
  /\ auth_response = NoTokens
  /\ printed = {}
  /\ parseIn = NoParseInput
  /\ extracted = NotExtracted
  /\ analysis = NoAnalysis

\* get_auth_code formats the URL
FormatAuthUrl ==
  /\ auth_url = NoUrl
  /\ auth_url' = BuiltUrl("get_auth_code",
                          auth_url_of(urlIn.client_id, urlIn.redirect_uri, urlIn.scope))
  /\ UNCHANGED <<flowVars, urlIn>>
  /\ UNCHANGED parseVars

\* SpotifyClient::get_auth_url formats the URL
FormatClientUrl ==
  /\ auth_url = NoUrl
  /\ auth_url' = BuiltUrl("get_auth_url",
                          get_auth_url(urlIn.client_id, urlIn.redirect_uri, urlIn.scope))
  /\ UNCHANGED <<flowVars, urlIn>>
  /\ UNCHANGED parseVars

UrlNext ==
  \/ FormatAuthUrl
  \/ FormatClientUrl

UrlSpec == UrlInit /\ [][UrlNext]_vars

(***************************************************************************)
(* The flow called with a redirect URI that the caller chooses:            *)
(* get_auth_code takes it as a parameter.                                  *)
(***************************************************************************)
CallRedirectUris ==
  {ConfigUrlInput.redirect_uri,
   HttpScheme \o <<"l", "o", "c", "a", "l", "h", "o", "s", "t", ":", "8", "0", "8", "0",
                   "/", "c", "a", "l", "l", "b", "a", "c", "k">>}

CallInit ==
  /\ pc = "idle"
  /\ calls = 0
  /\ browserOpens = 0
  /\ browserUp = FALSE
  /\ binds = 0
  /\ listenerBound = FALSE
  /\ portBusy \in BOOLEAN
  /\ pending = NoConn
  /\ acceptErrs = 0
  /\ conns = <<>>
  /\ codeResult = NoCode
  /\ posts = 0
  /\ lastPost = NoPost
  /\ authResult = NoAuth
  /\ tokens = NoTokens
  /\ refreshes = 0
  /\ chainStart = ""
  /\ exchangeErrs = {}
  /\ resource = NoResource
  /\ urlIn \in [client_id    : {ConfigUrlInput.client_id},
                 redirect_uri : CallRedirectUris,
                 scope        : {ConfigUrlInput.scope}]
  /\ auth_url = NoUrl
  /\ auth_response = NoTokens
  /\ printed = {}
  /\ parseIn = NoParseInput
  /\ extracted = NotExtracted
  /\ analysis = NoAnalysis

CallSpec == CallInit /\ [][Next]_vars

(***************************************************************************)
(* extract_code on its own: a request line is drawn from ParseInputs and   *)
(* extract_code is applied to it.                                          *)
(***************************************************************************)
ParseInit ==
  /\ pc = "idle"
  /\ calls = 0
  /\ browserOpens = 0
  /\ browserUp = FALSE
  /\ binds = 0
  /\ listenerBound = FALSE
  /\ portBusy = FALSE
  /\ pending = NoConn
  /\ acceptErrs = 0
  /\ conns = <<>>
  /\ codeResult = NoCode
  /\ posts = 0
  /\ lastPost = NoPost
  /\ authResult = NoAuth
  /\ tokens = NoTokens
  /\ refreshes = 0
  /\ chainStart = ""
  /\ exchangeErrs = {}
  /\ resource = NoResource
  /\ urlIn = ConfigUrlInput
  /\ auth_url = NoUrl
  /\ auth_response = NoTokens
  /\ printed = {}
  /\ parseIn \in ParseInputs
  /\ extracted = NotExtracted
  /\ analysis = NoAnalysis

ExtractCode ==
  /\ ~extracted.done
  /\ extracted' = [done |-> TRUE, out |-> extract_code(LineOf(parseIn))]
  /\ UNCHANGED <<flowVars, urlVars, parseIn>>

ParseNext == ExtractCode

ParseSpec == ParseInit /\ [][ParseNext]_vars

TypeOK ==
  /\ pc \in {"idle", "open", "bind", "listening", "exchange",
            "refresh_reconcile", "refresh_return"}
  /\ calls \in 0..MaxCalls
  /\ Len(conns) + acceptErrs <= MaxAccepts
  /\ refreshes \in 0..MaxRefreshes
  /\ listenerBound => ~portBusy

(***************************************************************************)
(* Properties.                                                             *)
(***************************************************************************)
\* the connections of this call whose request line was read and carried no code
NoCodeConn(i) == conns[i].read /\ ~extract_code(conns[i].line).some

\* C1: when the first accepted connection carries no code, get_auth_code
\* has failed after that one accept: it is not listening any more, it
\* returned an error and it accepted no second connection.
C1_OneShotListener ==
  (Len(conns) >= 1 /\ NoCodeConn(1)) =>
    (pc # "listening" /\ codeResult.kind = "err" /\ Len(conns) = 1)

\* the i-th connection of this call sent `GET /callback?code=c HTTP/1.1`
\* and get_auth_code read that line
CodeConn(i, c) == conns[i].line = RequestLine(CodeTarget(c)) /\ conns[i].read

\* C2 as claimed: for every code c, once the request line `GET
\* /callback?code=c HTTP/1.1` was read, get_auth_code has returned exactly c,
\* written the response once to that connection and closed it.
C2_ReturnsExactCode ==
  \A i \in 1..Len(conns) : \A c \in RawCodes :
    CodeConn(i, c) =>
      (codeResult = CodeOk(c) /\ conns[i].wrote = 1 /\ conns[i].closed)

\* the value form-urlencoded decoding gives for each raw code of the model
DecodedCode(c) == IF c = CodeEncoded THEN <<"A", " ", "/">> ELSE c

\* C2 as amended: once the request line `GET /callback?code=c HTTP/1.1` was
\* read, the connection is closed and either the response was written once
\* and get_auth_code returned the form-urlencoded decoding of c ("+" is a
\* space, "%2F" is "/"), or the write failed, nothing counts as written and
\* the write error was returned.
C2_ReturnsDecodedCode ==
  \A i \in 1..Len(conns) : \A c \in RawCodes :
    CodeConn(i, c) =>
      /\ conns[i].closed
      /\ \/ codeResult = CodeOk(DecodedCode(c)) /\ conns[i].wrote = 1
         \/ codeResult = CodeErr("write") /\ conns[i].wrote = 0

\* C2 witness: the encoded code came on the second connection of a call and
\* was returned decoded after one write.
C2_Witness ==
  /\ Len(conns) = 2
  /\ CodeConn(2, CodeEncoded)
  /\ codeResult = CodeOk(<<"A", " ", "/">>)
  /\ conns[2].wrote = 1

\* C3: get_auth_code does not wait for ever: from the loop over incoming()
\* it always comes to leave it.
C3_BoundedWait == (pc = "listening") ~> (pc # "listening")

\* C4: whenever get_auth_code is not inside its loop (it has not bound yet,
\* or it has returned, by any path), its listener does not hold port 3000.
C4_PortReleased == (pc # "listening") => ~listenerBound

\* C4 witness: a second call of get_auth_code holds the port again, after a
\* first call that bound it and returned a code.
C4_Witness == calls = 2 /\ listenerBound /\ pc = "listening" /\ tokens.some

\* C5: when get_auth_code failed because the port could not be bound, the
\* browser has not been launched.
C5_BindBeforeBrowser ==
  (codeResult = CodeErr("bind")) => (browserOpens = 0 /\ ~browserUp)

\* C6: a failed browser launch is never the error get_auth_code returns, and
\* never the cause of the error of authenticate_spotify.
C6_BrowserFailureNotFatal ==
  /\ codeResult # CodeErr("browser")
  /\ authResult.cause # "browser"

\* the last POST was a refresh that succeeded
RefreshOk == lastPost.grant = "refresh_token" /\ lastPost.result.kind = "ok"

\* C7: a successful refresh with prior refresh token P returns P when the
\* refresh_token of the response is empty, and the refresh_token of the
\* response otherwise.
C7_RefreshTokenReconciled ==
  RefreshOk =>
    LET P == lastPost.refresh_token
        N == lastPost.outcome.body.refresh_token
    IN  lastPost.result.val.refresh_token = IF N = "" THEN P ELSE N

\* C7 witness: a refresh with prior token RT1 succeeded on a response whose
\* refresh_token is empty.
C7_Witness ==
  /\ RefreshOk
  /\ lastPost.refresh_token = "RT1"
  /\ lastPost.outcome.body.refresh_token = ""

\* C8: in a chain of refreshes that started from a non-empty refresh token,
\* each call being given the token the last successful call returned, every
\* successful call returns a non-empty refresh token.
C8_RefreshTokenNeverLost ==
  (chainStart # "" /\ tokens.some) =>
    /\ tokens.val.refresh_token # ""
    /\ RefreshOk => lastPost.result.val.refresh_token # ""

\* C8 witness: the second refresh of a chain that started non-empty
\* succeeded on a response with an empty refresh_token.
C8_Witness ==
  /\ refreshes = 2
  /\ chainStart # ""
  /\ RefreshOk
  /\ lastPost.outcome.body.refresh_token = ""

\* a 2xx response with this body
Ok200(body) == [sent |-> TRUE, status |-> 200, body |-> body]

\* the token response of the scenario: {AT1, Bearer, 3600, RT1}
ScenarioTokenBody == Body(Fields, "AT1", "Bearer", 3600, "RT1")

\* the refresh response of the scenario: {AT2, 3600, ""}, no token_type
ScenarioRefreshBody == Body(Fields \ {"token_type"}, "AT2", "Bearer", 3600, "")

\* the same with token_type: {AT2, Bearer, 3600, ""}
FullRefreshBody == Body(Fields, "AT2", "Bearer", 3600, "")

\* the last POST was a refresh with prior token RT1, after an authorization
\* that returned AT1, answered by a 2xx response with this body
ScenarioRefresh(body) ==
  /\ authResult = AuthOk("AT1")
  /\ chainStart = "RT1"
  /\ lastPost.grant = "refresh_token"
  /\ lastPost.refresh_token = "RT1"
  /\ lastPost.outcome = Ok200(body)

\* the tokens of the scenario's end: access token AT2, refresh token RT1
ScenarioEnd ==
  /\ lastPost.result.kind = "ok"
  /\ lastPost.result.val.access_token = "AT2"
  /\ lastPost.result.val.refresh_token = "RT1"
  /\ tokens.val = lastPost.result.val

\* the exchange of a code, in the call of authenticate_spotify made last,
\* was answered by the token response of the scenario
ScenarioExchange ==
  /\ posts = 1
  /\ lastPost.grant = "authorization_code"
  /\ lastPost.outcome = Ok200(ScenarioTokenBody)

\* C9 as claimed: the authorization answered by {AT1, Bearer, 3600, RT1}
\* returns AT1, and a following refresh answered by {AT2, 3600, ""}, without
\* token_type, succeeds with access token AT2 and refresh token RT1.
C9_EndToEnd ==
  /\ ScenarioExchange => authResult = AuthOk("AT1")
  /\ ScenarioRefresh(ScenarioRefreshBody) => ScenarioEnd

\* C9 as amended: the authorization answered by {AT1, Bearer, 3600, RT1}
\* returns AT1; a following refresh answered by {AT2, Bearer, 3600, ""}
\* succeeds with access token AT2 and refresh token RT1; answered by
\* {AT2, 3600, ""}, without token_type, it fails on the body and the tokens
\* held stay as they were.
C9_EndToEndWithTokenType ==
  /\ ScenarioExchange => authResult = AuthOk("AT1")
  /\ ScenarioRefresh(FullRefreshBody) => ScenarioEnd
  /\ ScenarioRefresh(ScenarioRefreshBody) =>
       /\ lastPost.result = TokenErr("json", 0)
       /\ tokens.val.refresh_token = "RT1"

\* C9 witness: the refresh of the scenario, with token_type, has succeeded
\* right after the authorization.
C9_Witness ==
  /\ ScenarioRefresh(FullRefreshBody)
  /\ refreshes = 1
  /\ codeResult.kind = "ok"
  /\ ScenarioEnd

\* C10: a 2xx refresh response without the refresh_token field is a
\* successful refresh that returns the refresh token passed in.
C10_RefreshTokenOptional ==
  ( /\ lastPost.grant = "refresh_token"
    /\ lastPost.outcome.sent
    /\ is_success(lastPost.outcome.status)
    /\ lastPost.outcome.body = Body(Fields \ {"refresh_token"}, "AT2", "Bearer", 3600, "") )
  => ( /\ lastPost.result.kind = "ok"
       /\ lastPost.result.val.refresh_token = lastPost.refresh_token )

\* the call of authenticate_spotify made last has returned after its POST,
\* the exchange of the code, and no refresh came since
ExchangeDone == pc = "idle" /\ posts >= 1 /\ lastPost.grant = "authorization_code"

\* the last POST was answered with a status that is not 2xx
Rejected == lastPost.outcome.sent /\ ~is_success(lastPost.outcome.status)

\* C11: when the token endpoint answered the exchange with a non-2xx status
\* S, get_spotify_token returned the status error carrying S and no
\* AuthResponse, authenticate_spotify returned that error, and one POST was
\* issued in the call.
C11_RejectionCarriesStatus ==
  (ExchangeDone /\ Rejected) =>
    /\ lastPost.result = TokenErr("status", lastPost.outcome.status)
    /\ authResult.kind = "err"
    /\ authResult.cause = "status"
    /\ authResult.status = lastPost.outcome.status
    /\ posts = 1

\* C11 witness: the exchange was answered 401 and the call returned.
C11_Witness == ExchangeDone /\ Rejected /\ lastPost.outcome.status = 401

\* C12: a transport failure of the exchange and a non-2xx rejection are
\* errors of different kinds: the errors get_spotify_token returns for them
\* differ in type, and the errors authenticate_spotify returns for them
\* differ in variant.
C12_NetworkErrorDistinct ==
  \A a, b \in exchangeErrs :
    (a.cause = "send" /\ b.cause = "status") =>
      (a.type # b.type /\ a.variant # b.variant)

\* the last POST was a refresh answered with a status that is not 2xx
RefreshRejected == lastPost.grant = "refresh_token" /\ Rejected

\* the error refresh_spotify_token returned last: what failed, the type of
\* the boxed value and the status its message carries
RefreshError ==
  [cause  |-> lastPost.result.err,
   type   |-> error_type(lastPost.result.err),
   status |-> lastPost.result.status]

\* C13: the error of a rejected refresh differs from every error a rejected
\* exchange returned, and from every error a transport failure returned.
C13_RefreshRejectionDistinct ==
  RefreshRejected =>
    \A e \in exchangeErrs :
      e.cause \in {"status", "send"} =>
        RefreshError # [cause |-> e.cause, type |-> e.type, status |-> e.status]

\* C14: in one call of authenticate_spotify the browser is opened at most
\* once, the listener is bound at most once and at most one POST is sent to
\* the token endpoint, whether it succeeds or fails; that POST carries the
\* code get_auth_code returned.
C14_NoRetry ==
  /\ browserOpens <= 1
  /\ binds <= 1
  /\ posts <= 1
  /\ (posts = 1 /\ lastPost.grant = "authorization_code") =>
       (codeResult.kind = "ok" /\ lastPost.code = codeResult.code)

\* C14 witness: the call has returned after a POST that was rejected, and
\* that POST was the only one.
C14_Witness ==
  /\ ExchangeDone
  /\ Rejected
  /\ posts = 1
  /\ browserOpens = 1
  /\ binds = 1

\* C15: the steps of a call come one after the other: the browser is
\* launched before the bind, the bind before the loop, no POST is sent
\* before get_auth_code returned a code, and an access token is returned
\* only after the one POST of the call, whose result it is.
C15_StepsInSequence ==
  /\ pc = "open" => (browserOpens = 0 /\ binds = 0 /\ posts = 0)
  /\ pc = "bind" => (browserOpens = 1 /\ browserUp /\ binds = 0 /\ posts = 0)
  /\ pc = "listening" => (browserUp /\ binds = 1 /\ posts = 0)
  /\ pc = "exchange" => (codeResult.kind = "ok" /\ binds = 1 /\ posts = 0)
  /\ posts >= 1 => (codeResult.kind = "ok" /\ browserUp /\ binds = 1 /\ Len(conns) >= 1)
  /\ authResult.kind = "ok" => (pc = "idle" /\ posts = 1)
  /\ (authResult.kind = "ok" /\ lastPost.grant = "authorization_code") =>
       /\ lastPost.result.kind = "ok"
       /\ authResult.token = lastPost.result.val.access_token

\* C15 witness: a call returned an access token after a loop that took two
\* connections and an exchange that succeeded.
C15_Witness ==
  /\ authResult.kind = "ok"
  /\ lastPost.grant = "authorization_code"
  /\ Len(conns) = 2
  /\ posts = 1

\* C16: when a step of a call failed, authenticate_spotify returned an
\* error that carries no token, the first call leaves no token set behind,
\* and get_top_tracks was not called; get_top_tracks is called only after
\* authenticate_spotify returned Ok, with the access token of the exchange
\* that succeeded.
C16_FailsClosed ==
  /\ codeResult.kind = "err" =>
       (pc = "idle" /\ authResult.kind = "err" /\ posts = 0)
  /\ (ExchangeDone /\ lastPost.result.kind = "err") => authResult.kind = "err"
  /\ authResult.kind = "err" =>
       /\ authResult.token = ""
       /\ ~resource.called
       /\ calls = 1 => ~tokens.some
  /\ resource.called =>
       /\ authResult.kind = "ok"
       /\ posts = 1
       /\ resource.token = authResult.token
       /\ lastPost.grant = "authorization_code" =>
            lastPost.result = TokenOk(tokens.val) /\ resource.token = tokens.val.access_token

\* C16 witness: a first call failed on a malformed 2xx body and nothing
\* came of it.
C16_Witness ==
  /\ calls = 1
  /\ ExchangeDone
  /\ authResult.cause = "json"
  /\ ~tokens.some
  /\ ~resource.called

\* C17: whenever get_spotify_token or refresh_spotify_token returned Ok, the
\* access_token of the AuthResponse returned is not empty.
C17_AccessTokenNonEmpty ==
  lastPost.result.kind = "ok" => lastPost.result.val.access_token # ""

\* the fields the claim calls required
RequiredFields == {"access_token", "token_type", "expires_in"}

\* the last POST was answered 2xx with a JSON body that lacks a required field
LacksRequired ==
  /\ lastPost.outcome.sent
  /\ is_success(lastPost.outcome.status)
  /\ lastPost.outcome.body.json
  /\ RequiredFields \ lastPost.outcome.body.present # {}

\* C18: a 2xx response whose JSON body lacks access_token, token_type or
\* expires_in makes the exchange or the refresh fail on the body: no
\* AuthResponse is returned, authenticate_spotify returns the error, and a
\* failed refresh leaves the refresh token held as it was.
C18_MissingFieldIsMalformed ==
  LacksRequired =>
    /\ lastPost.result = TokenErr("json", 0)
    /\ ExchangeDone => (authResult.kind = "err" /\ authResult.cause = "json")
    /\ lastPost.grant = "refresh_token" =>
         tokens.val.refresh_token = lastPost.refresh_token

\* C18 witness: a refresh was answered 200 with a body without expires_in.
C18_Witness ==
  /\ LacksRequired
  /\ lastPost.grant = "refresh_token"
  /\ "expires_in" \notin lastPost.outcome.body.present

\* C19: once an accept has failed, or a connection without a code was read,
\* in a call of get_auth_code, that call has ended with an error: it is not
\* in its loop any more and it did not return a code.
C19_NoFailureSwallowed ==
  (acceptErrs >= 1 \/ \E i \in 1..Len(conns) : NoCodeConn(i)) =>
    (pc # "listening" /\ codeResult.kind = "err")

\* the query of the authorization URL: what stands between the first "?"
\* and the first "#" after it
UrlQuery(text) ==
  LET q    == FirstIn(text, {"?"})
      tail == From(text, q + 1)
      h    == FirstIn(tail, {"#"})
  IN  IF q = 0 THEN <<>> ELSE IF h = 0 THEN tail ELSE Upto(tail, h - 1)

Pair(k, v) == [key |-> k, value |-> v]

\* the query pairs the URL is to carry for the arguments it was built from
ExpectedPairs ==
  <<Pair(<<"c", "l", "i", "e", "n", "t", "_", "i", "d">>, urlIn.client_id),
    Pair(<<"r", "e", "s", "p", "o", "n", "s", "e", "_", "t", "y", "p", "e">>, <<"c", "o", "d", "e">>),
    Pair(<<"r", "e", "d", "i", "r", "e", "c", "t", "_", "u", "r", "i">>, urlIn.redirect_uri),
    Pair(<<"s", "c", "o", "p", "e">>, urlIn.scope)>>

\* C20: the authorization URL built from (client_id, redirect_uri, scope)
\* has exactly the query pairs client_id, response_type=code, redirect_uri
\* and scope, and their decoded values are the arguments themselves, also
\* when these contain "&", "=", "#", " " or "%".
C20_UrlRoundTrip ==
  auth_url # NoUrl => query_pairs(UrlQuery(auth_url.text)) = ExpectedPairs

\* C21: while the listener of get_auth_code holds its port, that port is the
\* port of the redirect_uri the call was given.
C21_PortMatchesRedirect ==
  listenerBound => addr_port(BindAddr) = Url_port(urlIn.redirect_uri)

\* the AuthResponse refresh_spotify_token is about to return for the POST made
RefreshedSet ==
  reconcile(json(lastPost.outcome.body).val, lastPost.refresh_token)

Secrets == {"client_secret", "code", "access_token", "refresh_token"}

\* C24: no message printed by the flow has the client secret, the
\* authorization code, the access token or the refresh token in it.
C24_SecretsNotLogged ==
  \A m \in printed : m.args \cap Secrets = {}

\* C24 witness: a call that received a code and a token set has printed its
\* messages about both, and the listener printed an accept error.
C24_Witness ==
  /\ authResult.kind = "ok"
  /\ tokens.val.refresh_token # ""
  /\ codeResult.code # <<>>
  /\ {code_obtained_message(codeResult.code), token_obtained_message(tokens.val),
      accept_error_message} \subseteq printed

\* the lines that have a second token which parses, and a query
HasQuery == parseIn.shape = "path"

\* the index of the first pair of the line whose key stands for "code", 0
\* when there is none
FirstCodePair ==
  IF \E i \in 1..Len(parseIn.pairs) : parseIn.pairs[i].key.dec = CodeKey
  THEN CHOOSE i \in 1..Len(parseIn.pairs) :
         /\ parseIn.pairs[i].key.dec = CodeKey
         /\ \A j \in 1..(i - 1) : parseIn.pairs[j].key.dec # CodeKey
  ELSE 0

\* C25 as claimed: extract_code returns the percent-decoded value of the
\* first pair whose key is "code", and None for a line of fewer than two
\* tokens, a token that does not parse, or no such key.
C25_ExtractPercentDecoded ==
  extracted.done =>
    extracted.out = IF HasQuery /\ FirstCodePair # 0
                    THEN Some(parseIn.pairs[FirstCodePair].value.pct)
                    ELSE None

\* C25 as amended: the value is form-decoded, "+" to a space and then the
\* percent escapes; the rest as claimed.
C25_ExtractFormDecoded ==
  extracted.done =>
    extracted.out = IF HasQuery /\ FirstCodePair # 0
                    THEN Some(parseIn.pairs[FirstCodePair].value.dec)
                    ELSE None

\* C25 witness: extract_code returned the decoded value of the first of two
\* "code" pairs of different values, after a pair of another key.
C25_Witness ==
  /\ extracted.done
  /\ HasQuery
  /\ Len(parseIn.pairs) = 2
  /\ parseIn.pairs[1].key.dec = CodeKey
  /\ parseIn.pairs[2].key.dec = CodeKey
  /\ parseIn.pairs[1].value.raw = CodeEncoded
  /\ parseIn.pairs[2].value.raw = CodePlain
  /\ extracted.out = Some(<<"A", " ", "/">>)

\* the connections of this call the response was written to
Responded == {i \in 1..Len(conns) : conns[i].wrote > 0}

\* C26: the response is written only to a connection whose request line
\* was read and carries a code; a connection without a code is closed with
\* nothing written to it; and one call writes at most one response.
C26_ResponseOnlyForCode ==
  /\ \A i \in Responded : conns[i].read /\ extract_code(conns[i].line).some
  /\ \A i \in 1..Len(conns) :
       ~extract_code(conns[i].line).some => conns[i].wrote = 0 /\ conns[i].closed
  /\ Cardinality(Responded) <= 1
  /\ \A i \in Responded : conns[i].wrote = 1

\* C26 witness: a connection without a code was closed unanswered and the
\* next one, with a code, was answered.
C26_Witness ==
  /\ Len(conns) = 2
  /\ ~extract_code(conns[1].line).some
  /\ conns[1].read
  /\ conns[1].wrote = 0
  /\ conns[2].wrote = 1
  /\ codeResult.kind = "ok"

\* the request line `GET /callback?code= HTTP/1.1`
EmptyCodeLine == RequestLine(CodeTarget(<<>>))

\* C27: when the request line of a connection is read and has `code=` with
\* an empty value, the call ends there as for any code: the response is
\* written and the empty string returned as the code (or the write fails
\* and its error is returned), and with the empty code returned
\* authenticate_spotify goes on to the exchange and posts that empty code.
C27_EmptyCodeAccepted ==
  \A i \in 1..Len(conns) :
    (conns[i].line = EmptyCodeLine /\ conns[i].read) =>
      /\ i = Len(conns)
      /\ IF conns[i].wrote = 1
         THEN /\ codeResult = CodeOk(<<>>)
              /\ authResult.kind # "err" \/ posts = 1
              /\ \/ pc = "exchange" /\ posts = 0
                 \/ pc = "idle" /\ posts = 1
              /\ (posts = 1 /\ lastPost.grant = "authorization_code") =>
                   lastPost.code = <<>>
         ELSE codeResult = CodeErr("write")

\* C27 witness: the exchange was posted with the empty code of the callback.
C27_Witness ==
  /\ Len(conns) >= 1
  /\ conns[Len(conns)].line = EmptyCodeLine
  /\ conns[Len(conns)].wrote = 1
  /\ codeResult = CodeOk(<<>>)
  /\ posts = 1
  /\ lastPost.grant = "authorization_code"
  /\ lastPost.code = <<>>

\* the connections of this call whose line was read and carries a code, and
\* to which the response could not be written
WriteFailed(i) ==
  /\ conns[i].read
  /\ extract_code(conns[i].line).some
  /\ conns[i].wrote = 0

\* C28: a code is returned only when the response was written to the
\* connection that carried it; when the write fails the call ends with the
\* I/O error of the write, no code is kept, authenticate_spotify returns
\* that error and no POST is made.
C28_CodeOnlyAfterResponse ==
  /\ codeResult.kind = "ok" =>
       /\ Len(conns) >= 1
       /\ conns[Len(conns)].wrote = 1
       /\ Some(codeResult.code) = extract_code(conns[Len(conns)].line)
  /\ \A i \in 1..Len(conns) :
       WriteFailed(i) =>
         /\ i = Len(conns)
         /\ codeResult = CodeErr("write")
         /\ error_type(codeResult.err) = "std::io::Error"
         /\ authResult = AuthErr("write", 0)
         /\ pc = "idle"
         /\ posts = 0

\* C28 witness: the request line carried a non-empty code, the write failed
\* and the call has ended.
C28_Witness ==
  /\ Len(conns) >= 1
  /\ WriteFailed(Len(conns))
  /\ extract_code(conns[Len(conns)].line).val # <<>>
  /\ authResult.kind = "err"

\* a step of the loop that takes a failed accept
AcceptFails == pending.kind = "accept_err" /\ pending' = NoConn

\* C29: a failed accept is printed and nothing else: the call is still
\* listening, with its listener, and has returned nothing; a failed read of
\* the request line ends the call with the error of the read, which
\* authenticate_spotify returns; neither yields a code for its connection.
C29_AcceptVersusReadFailure ==
  [][/\ AcceptFails =>
          /\ pc' = "listening"
          /\ listenerBound'
          /\ codeResult' = NoCode
          /\ conns' = conns
          /\ acceptErrs' = acceptErrs + 1
          /\ accept_error_message \in printed'
     /\ \A i \in 1..Len(conns') :
          ~conns'[i].read =>
            /\ i = Len(conns')
            /\ conns'[i].wrote = 0
            /\ codeResult' = CodeErr("read")
            /\ authResult' = AuthErr("read", 0)
            /\ pc' = "idle"
            /\ ~listenerBound'
            /\ posts' = 0]_vars

\* C29 witness: in one call an accept failed, the loop went on, and the
\* read of the next connection's request line failed and ended the call.
C29_Witness ==
  /\ acceptErrs = 1
  /\ Len(conns) = 1
  /\ ~conns[1].read
  /\ codeResult = CodeErr("read")
  /\ accept_error_message \in printed

\* generate_ai_response has been called
TextGenerated == analysis.roast \in {"ok", "OpenAIError"}

\* C30: each step of run_music_analysis has run only if the step before it
\* returned Ok: authenticate_spotify after the configuration, get_top_tracks
\* after an access token and with it, the prompts after the tracks,
\* roast_or_toast_music_taste after the prompts, the text generation after
\* all of them; so after a failed step no later step has run.
C30_StepsInOrder ==
  /\ calls > 0 => analysis.config = "ok"
  /\ resource.called =>
       /\ calls > 0
       /\ pc = "idle"
       /\ authResult.kind = "ok"
       /\ resource.token = authResult.token
  /\ analysis.preferences # "" => resource.called /\ resource.result = "ok"
  /\ analysis.roast # "" => analysis.preferences = "ok"
  /\ TextGenerated =>
       /\ resource.result = "ok"
       /\ analysis.preferences = "ok"
  /\ analysis.config = "SpotifyAuth" => calls = 0
  /\ authResult.kind = "err" => ~resource.called
  /\ (resource.called /\ resource.result # "ok") => analysis.preferences = ""
  /\ analysis.preferences = "UserInput" => analysis.roast = ""

\* C30 witness: a run that went through every step.
C30_Witness ==
  /\ analysis.config = "ok"
  /\ authResult.kind = "ok"
  /\ resource.result = "ok"
  /\ analysis.preferences = "ok"
  /\ analysis.roast = "ok"

====
